---- MODULE Spec2Model ----
(***************************************************************************)
(* The swapchain / frame-lifecycle manager of the Vulkan C++ tutorial      *)
(* (vcpp::swapchain, src/src/presentation.cpp) together with the device    *)
(* it drives: the fences, the GPU queue and the presentation engine.       *)
(*                                                                         *)
(* get_next_frame is modelled statement by statement (pc is the position   *)
(* of the calling thread), because the GPU and the presentation engine     *)
(* run asynchronously between its statements.                              *)
(***************************************************************************)
EXTENDS Integers, Sequences, FiniteSets, TLC

\* ------------------------------------------------------------------ bounds
MaxInFlight == 2        \* largest maxImagesInFlight explored
MaxExtraImages == 1     \* the driver may create this many images above minImageCount
MaxCalls == 5           \* descriptors returned per behaviour
MaxMemoryTypes == 3     \* largest memoryTypeCount explored
MaxVertexFormats == 3   \* longest vertex format list explored
MaxConstructions == 2   \* managers constructed per behaviour, one after the other
MaxDevices == 3         \* longest physical device list explored
MaxFileSize == 9        \* largest shader file explored, in bytes

VARIABLES
    m_maxImagesInFlight,            \* presentation.hpp:70
    m_currentFrameIndex,            \* presentation.hpp:71
    m_swapchain,                    \* the swapchain object: its image count
    m_imageViews,                   \* image index -> view handle
    m_framebuffers,                 \* image index -> framebuffer handle
    m_depthImageView,               \* the depth view handle
    m_inFlightFences,               \* slot -> fence handle
    m_readyForRenderingSemaphores,  \* slot -> semaphore handle
    m_readyForPresentingSemaphores, \* slot -> semaphore handle
    signaled,                       \* device: fence handle -> BOOLEAN
    imageState,                     \* presentation engine: image -> free/acquired/queued
    pending,                        \* GPU queue: fence handle -> submissions still executing
    finished,                       \* fence handle -> submissions finished, fence not yet waited on
    pc,                             \* position of the calling thread
    imageIndex,                     \* local of get_next_frame
    acquireStatus,                  \* vk::Result of the acquisition in the current call
    frame,                          \* the last returned frame_data
    submitted,                      \* caller: work was submitted for `frame`
    presented,                      \* caller: `frame`'s image was queued for presentation
    returns,                        \* history: calls that returned a descriptor
    everSubmitted,                  \* history: some work was submitted
    log,                            \* history: the device calls of the current call, in order
    helper,                         \* the last call of a setup helper: its arguments and outcome
    gpuPair,                        \* a gpu_buffer / gpu_image: its live members, its destructions
    mainRun,                        \* main(): the steps executed, the output, the exit status
    device                          \* the objects behind the manager's handles, live and destroyed

vars == << m_maxImagesInFlight, m_currentFrameIndex, m_swapchain, m_imageViews,
           m_framebuffers, m_depthImageView, m_inFlightFences,
           m_readyForRenderingSemaphores, m_readyForPresentingSemaphores,
           signaled, imageState, pending, finished, pc, imageIndex, acquireStatus,
           frame, submitted, presented, returns, everSubmitted, log,
           helper, gpuPair, mainRun, device >>

\* The manager, its caller and the device.
swapchainVars == << m_maxImagesInFlight, m_currentFrameIndex, m_swapchain, m_imageViews,
                    m_framebuffers, m_depthImageView, m_inFlightFences,
                    m_readyForRenderingSemaphores, m_readyForPresentingSemaphores,
                    signaled, imageState, pending, finished, pc, imageIndex,
                    acquireStatus, frame, submitted, presented, returns,
                    everSubmitted, log >>

\* The setup code around the manager: helpers, resource pairs, main().
setupVars == << helper, gpuPair, mainRun, device >>

NoHelperCall == [fn |-> "none"]
NoGpuPair == [kind |-> "none", alive |-> << >>, destroyed |-> << >>]
MainNotStarted == [state |-> "not started", executed |-> << >>, failedAt |-> 0,
                   printed |-> FALSE, exit |-> "none"]

managerVars == << m_maxImagesInFlight, m_swapchain, m_imageViews, m_framebuffers,
                  m_depthImageView, m_inFlightFences,
                  m_readyForRenderingSemaphores, m_readyForPresentingSemaphores >>

callerVars == << submitted, presented, everSubmitted >>

\* --------------------------------------------------------------- handles
\* A handle is the device object it names: its kind and what it was created from.
ImageViewOf(i) == [kind |-> "imageView", image |-> i]
DepthImageView == [kind |-> "imageView", depth |-> TRUE]
FramebufferOf(colourView, depthView) ==
    [kind |-> "framebuffer", attachments |-> << colourView, depthView >>]
FenceOf(i) == [kind |-> "fence", n |-> i]
SemaphoreOf(purpose, i) == [kind |-> "semaphore", purpose |-> purpose, n |-> i]

NoFrame == [swapchainImageIndex |-> -1]

Slots == 0 .. (m_maxImagesInFlight - 1)
Images == 0 .. (m_swapchain.imageCount - 1)
Fences == { m_inFlightFences[s] : s \in Slots }

\* ---------------------------------------------------------- construction
\* A swapchain asked for a single image whatever maxImagesInFlight is.
SwapchainImageCounts_MinOne(maxImagesInFlight) == 1 .. (1 + MaxExtraImages)

\* create_swapchain: minImageCount is maxImagesInFlight; the driver creates at
\* least that many images.
SwapchainImageCounts(maxImagesInFlight) ==
    maxImagesInFlight .. (maxImagesInFlight + MaxExtraImages)

\* create_swapchain_image_views: one view per image the swapchain reports.
create_swapchain_image_views(imageCount) ==
    [ i \in 0 .. (imageCount - 1) |-> ImageViewOf(i) ]

\* One framebuffer per in-flight slot instead of one per view.
create_framebuffers_PerSlot(imageViews, depthImageView) ==
    [ i \in 0 .. (m_maxImagesInFlight - 1) |->
        FramebufferOf(imageViews[i], depthImageView) ]

\* create_framebuffers: one framebuffer per view, attaching { view, depth view }.
create_framebuffers(imageViews, depthImageView) ==
    [ i \in DOMAIN imageViews |-> FramebufferOf(imageViews[i], depthImageView) ]

\* A fence created without the eSignaled flag.
FenceCreateSignaled_Unsignaled == FALSE

\* The flag every fence is created with (FenceCreateFlagBits::eSignaled).
FenceCreateSignaled == TRUE

\* The swapchain handle and the depth image pair (m_depthImage).
SwapchainHandle == [kind |-> "swapchain"]
DepthImage == [kind |-> "image", depth |-> TRUE]
DepthImageMemory == [kind |-> "memory", depth |-> TRUE]

\* Every handle the manager holds.
ManagerHandles ==
    { SwapchainHandle, DepthImage, DepthImageMemory, m_depthImageView }
    \cup { m_imageViews[i] : i \in DOMAIN m_imageViews }
    \cup { m_framebuffers[i] : i \in DOMAIN m_framebuffers }
    \cup { m_inFlightFences[i] : i \in DOMAIN m_inFlightFences }
    \cup { m_readyForRenderingSemaphores[i] : i \in DOMAIN m_readyForRenderingSemaphores }
    \cup { m_readyForPresentingSemaphores[i] : i \in DOMAIN m_readyForPresentingSemaphores }

\* A constructor that keeps the depth image and its view of the manager before.
ConstructedObjects_KeepDepthImage(handles, construction, previous) ==
    [ h \in handles |->
        IF h \in { DepthImage, DepthImageMemory, DepthImageView } /\ h \in DOMAIN previous
        THEN previous[h] ELSE construction ]

\* The constructor obtains every member from a create call of its own: each
\* handle names an object made by this construction.
ConstructedObjects(handles, construction, previous) ==
    [ h \in handles |-> construction ]

\* The extents the surface can have; the first manager is built for the first.
Extents == << "800x600", "1024x768" >>

Init ==
    /\ m_maxImagesInFlight \in 1 .. MaxInFlight
    /\ \E n \in SwapchainImageCounts(m_maxImagesInFlight) :
          m_swapchain = [imageCount |-> n]
    /\ m_currentFrameIndex = 0
    /\ m_imageViews = create_swapchain_image_views(m_swapchain.imageCount)
    /\ m_depthImageView = DepthImageView
    /\ m_framebuffers = create_framebuffers(m_imageViews, m_depthImageView)
    /\ m_inFlightFences = [ i \in Slots |-> FenceOf(i) ]
    /\ m_readyForRenderingSemaphores = [ i \in Slots |-> SemaphoreOf("rendering", i) ]
    /\ m_readyForPresentingSemaphores = [ i \in Slots |-> SemaphoreOf("presenting", i) ]
    /\ signaled = [ f \in Fences |-> FenceCreateSignaled ]
    /\ imageState = [ i \in Images |-> "free" ]
    /\ pending = [ f \in Fences |-> 0 ]
    /\ finished = [ f \in Fences |-> 0 ]
    /\ pc = "idle"
    /\ imageIndex = 0
    /\ acquireStatus = "none"
    /\ frame = NoFrame
    /\ submitted = FALSE
    /\ presented = FALSE
    /\ returns = 0
    /\ everSubmitted = FALSE
    /\ log = << >>
    /\ helper = NoHelperCall
    /\ gpuPair = NoGpuPair
    /\ mainRun = MainNotStarted
    /\ device = [constructions |-> 1,
                 extent |-> Extents[1],
                 objectOf |-> ConstructedObjects(ManagerHandles, 1, << >>),
                 destroyed |-> {}]

\* --------------------------------------------------------- get_next_frame
\* The slot index advanced before the descriptor is built.
StepAfter_AdvanceBeforeBuild(p) ==
    CASE p = "acquire" -> "wait"
      [] p = "wait"    -> "reset"
      [] p = "reset"   -> "advance"
      [] p = "advance" -> "build"
      [] p = "build"   -> "returned"

\* The statements of get_next_frame in program order.
StepAfter(p) ==
    CASE p = "acquire" -> "wait"
      [] p = "wait"    -> "reset"
      [] p = "reset"   -> "build"
      [] p = "build"   -> "advance"
      [] p = "advance" -> "returned"

InCall == { "acquire", "wait", "reset", "build", "advance" }

\* A zero timeout: the acquisition polls.
AcquireTimeout_Zero == "0"

\* A finite timeout.
AcquireTimeout_Finite == "1000000000"

\* The timeout handed to acquireNextImageKHR: numeric_limits<uint64_t>::max().
AcquireTimeout == "UINT64_MAX"

\* Results vulkan.hpp's acquireNextImageKHR hands back instead of throwing.
AcquireSuccessCodes == { "eSuccess", "eTimeout", "eNotReady", "eSuboptimalKHR" }

\* Results that mean the semaphore will be signaled and `value` is an image.
AcquiredCodes == { "eSuccess", "eSuboptimalKHR" }

AcquireErrorCodes == { "eErrorOutOfDateKHR", "eErrorDeviceLost" }

FreeImages == { i \in Images : imageState[i] = "free" }

\* The acquisition handed the slot's ready-for-presenting semaphore.
AcquireSemaphore_Presenting == m_readyForPresentingSemaphores[m_currentFrameIndex]

\* The semaphore handed to acquireNextImageKHR.
AcquireSemaphore == m_readyForRenderingSemaphores[m_currentFrameIndex]

\* The caller (or the loop) enters get_next_frame.
Call ==
    /\ pc \in { "idle", "returned", "threw" }
    /\ returns < MaxCalls
    /\ pc' = "acquire"
    /\ acquireStatus' = "none"
    /\ log' = << >>
    /\ UNCHANGED << setupVars, managerVars, m_currentFrameIndex, signaled, imageState, pending,
                    finished, imageIndex, frame, callerVars, returns >>

\* acquireNextImageKHR( swapchain, timeout, semaphore ).value when the driver
\* reports a result that vulkan.hpp hands back instead of throwing.
\*  - an image is available: it is acquired (eSuccess or eSuboptimalKHR);
\*  - none is available: with the infinite timeout the call stays inside the
\*    driver; with a finite one the driver reports eNotReady (timeout 0) or
\*    eTimeout and the index that comes with it was never written.
AcquireNextImage ==
    /\ pc = "acquire"
    /\ IF FreeImages # {}
       THEN \E i \in FreeImages, r \in AcquiredCodes :
               /\ imageState' = [imageState EXCEPT ![i] = "acquired"]
               /\ imageIndex' = i
               /\ acquireStatus' = r
       ELSE /\ AcquireTimeout # "UINT64_MAX"
            /\ acquireStatus' = (IF AcquireTimeout = "0" THEN "eNotReady" ELSE "eTimeout")
            /\ imageIndex' \in Images
            /\ UNCHANGED imageState
    /\ acquireStatus' \in AcquireSuccessCodes
    /\ log' = Append(log, [op |-> "acquire", arg |-> AcquireSemaphore])
    /\ pc' = StepAfter("acquire")
    /\ UNCHANGED << setupVars, managerVars, m_currentFrameIndex, signaled, pending, finished,
                    frame, callerVars, returns >>

\* acquireNextImageKHR reports an error: vulkan.hpp throws, get_next_frame is left.
AcquireThrows ==
    /\ pc = "acquire"
    /\ \E r \in AcquireErrorCodes \ AcquireSuccessCodes : acquireStatus' = r
    /\ pc' = "threw"
    /\ UNCHANGED << setupVars, managerVars, m_currentFrameIndex, signaled, imageState, pending,
                    finished, imageIndex, frame, callerVars, returns, log >>

\* The slot index left unadvanced (a post-increment in place of the pre-increment).
NextFrameIndex_NoAdvance == m_currentFrameIndex

\* ++m_currentFrameIndex % m_maxImagesInFlight (the index stays below
\* maxImagesInFlight, so the 32-bit increment cannot wrap).
NextFrameIndex == (m_currentFrameIndex + 1) % m_maxImagesInFlight

\* The wait always done on the first slot's fence.
FenceWaitedOn_FirstSlot == m_inFlightFences[0]

\* The fence handed to waitForFences.
FenceWaitedOn == m_inFlightFences[m_currentFrameIndex]

\* A wait that returns at once (a zero timeout, its result ignored).
WaitSatisfied_NoWait == TRUE

\* waitForFences( fence, true, max ) returns once the fence is signaled.
WaitSatisfied == signaled[FenceWaitedOn]

\* The wait returns: the CPU has observed the completion of what was submitted
\* with this fence.
WaitForFences ==
    /\ pc = "wait"
    /\ WaitSatisfied
    /\ finished' = [finished EXCEPT ![FenceWaitedOn] = 0]
    /\ log' = Append(log, [op |-> "wait", arg |-> FenceWaitedOn])
    /\ pc' = StepAfter("wait")
    /\ UNCHANGED << setupVars, managerVars, m_currentFrameIndex, signaled, imageState, pending,
                    imageIndex, acquireStatus, frame, callerVars, returns >>

\* A reset that leaves the fence as it is.
resetFences_Noop(f) == signaled

\* A reset of every fence of the manager.
resetFences_All(f) == [ g \in DOMAIN signaled |-> FALSE ]

\* resetFences( fence ): the fence state after the call.
resetFences(f) == [signaled EXCEPT ![f] = FALSE]

ResetFences ==
    /\ pc = "reset"
    /\ signaled' = resetFences(m_inFlightFences[m_currentFrameIndex])
    /\ log' = Append(log, [op |-> "reset", arg |-> m_inFlightFences[m_currentFrameIndex]])
    /\ pc' = StepAfter("reset")
    /\ UNCHANGED << setupVars, managerVars, m_currentFrameIndex, imageState, pending, finished,
                    imageIndex, acquireStatus, frame, callerVars, returns >>

\* The framebuffer taken at the slot index.
FrameFramebuffer_BySlot == m_framebuffers[m_currentFrameIndex]

\* The framebuffer put into the descriptor.
FrameFramebuffer == m_framebuffers[imageIndex]

\* const auto frame = frame_data{ ... }
BuildFrame ==
    /\ pc = "build"
    /\ frame' = [ swapchainImageIndex |-> imageIndex,
                  inFlightIndex |-> m_currentFrameIndex,
                  framebuffer |-> FrameFramebuffer,
                  inFlightFence |-> m_inFlightFences[m_currentFrameIndex],
                  readyForRenderingSemaphore |->
                      m_readyForRenderingSemaphores[m_currentFrameIndex],
                  readyForPresentingSemaphore |->
                      m_readyForPresentingSemaphores[m_currentFrameIndex] ]
    /\ log' = Append(log, [op |-> "build", arg |-> m_currentFrameIndex])
    /\ pc' = StepAfter("build")
    /\ UNCHANGED << setupVars, managerVars, m_currentFrameIndex, signaled, imageState, pending,
                    finished, imageIndex, acquireStatus, callerVars, returns >>

\* m_currentFrameIndex = ...; return frame;
Advance ==
    /\ pc = "advance"
    /\ m_currentFrameIndex' = NextFrameIndex
    /\ log' = Append(log, [op |-> "advance", arg |-> m_currentFrameIndex'])
    /\ pc' = StepAfter("advance")
    /\ returns' = returns + 1
    /\ submitted' = FALSE
    /\ presented' = FALSE
    /\ UNCHANGED << setupVars, managerVars, signaled, imageState, pending, finished, imageIndex,
                    acquireStatus, frame, everSubmitted >>

\* ------------------------------------------------- caller, GPU, presentation
\* The caller submits one unit of work for the returned descriptor; the
\* submission names the descriptor's fence.
Submit ==
    /\ pc = "returned"
    /\ ~submitted
    /\ pending' = [pending EXCEPT ![frame.inFlightFence] = @ + 1]
    /\ submitted' = TRUE
    /\ everSubmitted' = TRUE
    /\ UNCHANGED << setupVars, managerVars, m_currentFrameIndex, signaled, imageState, finished,
                    pc, imageIndex, acquireStatus, frame, presented, returns, log >>

\* The GPU finishes a submission and signals the fence it names.
GpuComplete ==
    /\ \E f \in Fences :
          /\ pending[f] > 0
          /\ pending' = [pending EXCEPT ![f] = @ - 1]
          /\ finished' = [finished EXCEPT ![f] = @ + 1]
          /\ signaled' = [signaled EXCEPT ![f] = TRUE]
    /\ UNCHANGED << setupVars, managerVars, m_currentFrameIndex, imageState, pc, imageIndex,
                    acquireStatus, frame, callerVars, returns, log >>

\* The caller queues the acquired image for presentation, after its submission.
Present ==
    /\ pc = "returned"
    /\ submitted
    /\ ~presented
    /\ imageState' = [imageState EXCEPT ![frame.swapchainImageIndex] = "queued"]
    /\ presented' = TRUE
    /\ UNCHANGED << setupVars, managerVars, m_currentFrameIndex, signaled, pending, finished, pc,
                    imageIndex, acquireStatus, frame, submitted, everSubmitted,
                    returns, log >>

\* The presentation engine is done with a queued image and releases it.
ReleaseImage ==
    /\ \E i \in Images :
          /\ imageState[i] = "queued"
          /\ imageState' = [imageState EXCEPT ![i] = "free"]
    /\ UNCHANGED << setupVars, managerVars, m_currentFrameIndex, signaled, pending, finished, pc,
                    imageIndex, acquireStatus, frame, callerVars, returns, log >>

\* The statements of get_next_frame that make it progress towards its return.
GetNextFrameStep ==
    \/ AcquireNextImage
    \/ WaitForFences
    \/ ResetFences
    \/ BuildFrame
    \/ Advance

Next ==
    \/ Call
    \/ AcquireNextImage
    \/ AcquireThrows
    \/ WaitForFences
    \/ ResetFences
    \/ BuildFrame
    \/ Advance
    \/ Submit
    \/ GpuComplete
    \/ Present
    \/ ReleaseImage

Spec == Init /\ [][Next]_vars

\* ------------------------------------------------------------- recreation
\* The device object a handle of the manager names.
ObjectOf(h) == [handle |-> h, construction |-> device.objectOf[h]]

\* The surface extent changed: the caller, outside any call and with the device
\* drained, destroys the manager (every Unique member destroys its object) and
\* constructs a new one for the new extent with the same maxImagesInFlight.
RecreateManager ==
    /\ pc \in { "idle", "returned", "threw" }
    /\ \A f \in Fences : pending[f] = 0
    /\ device.constructions < MaxConstructions
    /\ \E e \in { Extents[k] : k \in DOMAIN Extents } \ { device.extent },
          n \in SwapchainImageCounts(m_maxImagesInFlight) :
          /\ m_swapchain' = [imageCount |-> n]
          /\ m_imageViews' = create_swapchain_image_views(n)
          /\ m_depthImageView' = DepthImageView
          /\ m_framebuffers' = create_framebuffers(m_imageViews', m_depthImageView')
          /\ m_inFlightFences' = [ i \in Slots |-> FenceOf(i) ]
          /\ m_readyForRenderingSemaphores' = [ i \in Slots |-> SemaphoreOf("rendering", i) ]
          /\ m_readyForPresentingSemaphores' = [ i \in Slots |-> SemaphoreOf("presenting", i) ]
          /\ signaled' = [ f \in Fences |-> FenceCreateSignaled ]
          /\ imageState' = [ i \in 0 .. (n - 1) |-> "free" ]
          /\ device' = [constructions |-> device.constructions + 1,
                        extent |-> e,
                        objectOf |-> ConstructedObjects(ManagerHandles',
                                                        device.constructions + 1,
                                                        device.objectOf),
                        destroyed |-> device.destroyed
                                        \cup { ObjectOf(h) : h \in ManagerHandles }]
    /\ m_currentFrameIndex' = 0
    /\ pending' = [ f \in Fences |-> 0 ]
    /\ finished' = [ f \in Fences |-> 0 ]
    /\ pc' = "idle"
    /\ imageIndex' = 0
    /\ acquireStatus' = "none"
    /\ frame' = NoFrame
    /\ submitted' = FALSE
    /\ presented' = FALSE
    /\ returns' = 0
    /\ everSubmitted' = FALSE
    /\ log' = << >>
    /\ UNCHANGED << m_maxImagesInFlight, helper, gpuPair, mainRun >>

InitRecreate ==
    /\ Init
    /\ m_maxImagesInFlight = 2

NextRecreate ==
    \/ Call
    \/ AcquireNextImage
    \/ AcquireThrows
    \/ WaitForFences
    \/ ResetFences
    \/ BuildFrame
    \/ Advance
    \/ Submit
    \/ GpuComplete
    \/ Present
    \/ ReleaseImage
    \/ RecreateManager

SpecRecreate == InitRecreate /\ [][NextRecreate]_vars

\* ------------------------------------------------- the loop under its contract
\* The caller enters get_next_frame again only after it has submitted the work
\* of the descriptor it holds and presented its image.
ContractCall ==
    /\ pc = "returned" => (submitted /\ presented)
    /\ Call

NextLoop ==
    \/ ContractCall
    \/ AcquireNextImage
    \/ WaitForFences
    \/ ResetFences
    \/ BuildFrame
    \/ Advance
    \/ Submit
    \/ GpuComplete
    \/ Present
    \/ ReleaseImage

\* The calling thread keeps running, the caller submits and presents, every
\* submission completes and the presentation engine releases what it was given.
LoopFairness ==
    /\ WF_vars(GetNextFrameStep)
    /\ WF_vars(Submit)
    /\ WF_vars(Present)
    /\ WF_vars(GpuComplete)
    /\ WF_vars(ReleaseImage)

SpecLoop == Init /\ [][NextLoop]_vars /\ LoopFairness

\* ================================================================= claims
RECURSIVE SumOver(_, _)
SumOver(f, S) ==
    IF S = {} THEN 0
    ELSE LET x == CHOOSE y \in S : TRUE IN f[x] + SumOver(f, S \ {x})

\* Frames submitted to the GPU whose completion the CPU has not observed in a
\* fence wait: still executing, or finished with the fence not yet waited on.
InFlightCount == SumOver(pending, Fences) + SumOver(finished, Fences)

\* The calling thread is inside get_next_frame and none of its statements can
\* complete: it is suspended.
Suspended == pc \in InCall /\ ~ENABLED GetNextFrameStep

\* The device calls one call of get_next_frame makes for slot s, in order.
ExpectedLog(s) ==
    << [op |-> "acquire", arg |-> m_readyForRenderingSemaphores[s]],
       [op |-> "wait",    arg |-> m_inFlightFences[s]],
       [op |-> "reset",   arg |-> m_inFlightFences[s]],
       [op |-> "build",   arg |-> s],
       [op |-> "advance", arg |-> (s + 1) % m_maxImagesInFlight] >>

IsPrefix(a, b) == Len(a) <= Len(b) /\ a = SubSeq(b, 1, Len(a))

\* C1: the descriptor returned by the k-th successful call (k from 0) carries
\* inFlightIndex = k mod maxImagesInFlight.
C1_SlotSequencePeriodic ==
    pc = "returned" => frame.inFlightIndex = (returns - 1) % m_maxImagesInFlight

\* C1 witness: the slot sequence has wrapped around with more than one slot.
C1_Witness ==
    /\ pc = "returned"
    /\ m_maxImagesInFlight >= 2
    /\ returns = 2 * m_maxImagesInFlight + 1
    /\ frame.inFlightIndex = 0

\* C2: the returned framebuffer is the one created for the image the
\* acquisition of the same call returned, whatever the slot index is.
C2_FramebufferOfAcquiredImage ==
    pc = "returned" =>
        /\ frame.swapchainImageIndex = imageIndex
        /\ frame.framebuffer.attachments[1] = ImageViewOf(imageIndex)

\* C2 witness: a descriptor whose image index differs from its slot index, on a
\* swapchain with more images than slots.
C2_Witness ==
    /\ pc = "returned"
    /\ m_swapchain.imageCount # m_maxImagesInFlight
    /\ imageIndex # frame.inFlightIndex
    /\ frame.framebuffer = m_framebuffers[imageIndex]

\* C3: at most maxImagesInFlight submitted frames have a completion the CPU
\* has not observed.
C3_InFlightBound == InFlightCount <= m_maxImagesInFlight

\* C3 witness: every slot has a frame in flight.
C3_Witness ==
    /\ m_maxImagesInFlight >= 2
    /\ InFlightCount = m_maxImagesInFlight
    /\ \A f \in Fences : pending[f] = 1

\* C4: past the fence wait, and at the return, no work submitted with the
\* slot's fence is still executing.
C4_SlotWorkFinished ==
    /\ pc \in { "reset", "build", "advance" } =>
          pending[m_inFlightFences[m_currentFrameIndex]] = 0
    /\ (pc = "returned" /\ ~submitted) => pending[frame.inFlightFence] = 0

\* C4 witness: a slot is handed out again while another slot's frame still runs.
C4_Witness ==
    /\ pc = "returned"
    /\ ~submitted
    /\ returns > m_maxImagesInFlight
    /\ \E f \in Fences : pending[f] > 0

C6_StepOrder ==
    /\ pc \in InCall => IsPrefix(log, ExpectedLog(m_currentFrameIndex))
    /\ pc = "returned" =>
          /\ log = ExpectedLog(frame.inFlightIndex)
          /\ m_currentFrameIndex = (frame.inFlightIndex + 1) % m_maxImagesInFlight

\* C6 witness: a completed call for the last slot, whose advance wraps to 0.
C6_Witness ==
    /\ pc = "returned"
    /\ m_maxImagesInFlight >= 2
    /\ Len(log) = 5
    /\ frame.inFlightIndex = m_maxImagesInFlight - 1
    /\ m_currentFrameIndex = 0

\* C7: in each of the first maxImagesInFlight calls the fence waited on is
\* signaled, so the wait does not block.
C7_FirstWaitsDoNotBlock ==
    (pc = "wait" /\ returns < m_maxImagesInFlight) => WaitSatisfied

\* C7 witness: the last call of the first round is at its wait, nothing having
\* been submitted.
C7_Witness ==
    /\ pc = "wait"
    /\ m_maxImagesInFlight >= 2
    /\ returns = m_maxImagesInFlight - 1
    /\ ~everSubmitted

\* C8: the returned fence is unsignaled at the return, and a fence becomes
\* signaled only in a step in which a submission naming it completes.
C8_FenceUnsignaledUntilCompletion ==
    /\ [](pc = "returned" /\ ~submitted => ~signaled[frame.inFlightFence])
    /\ [][\A f \in Fences :
            (~signaled[f] /\ signaled'[f]) => pending'[f] = pending[f] - 1]_vars

\* C8 witness: a reused slot's fence is unsignaled at the return.
C8_Witness ==
    /\ pc = "returned"
    /\ ~submitted
    /\ returns > m_maxImagesInFlight
    /\ ~signaled[frame.inFlightFence]

C10_AcquireFailureThrows ==
    /\ acquireStatus \notin (AcquiredCodes \cup { "none" }) => pc = "threw"
    /\ pc \in (InCall \ { "acquire" }) \cup { "returned" } =>
          acquireStatus \in AcquiredCodes

\* C10 witness: a call after a returned one ended on an out-of-date swapchain.
C10_Witness ==
    /\ pc = "threw"
    /\ acquireStatus = "eErrorOutOfDateKHR"
    /\ returns >= 1

\* C11: a returned descriptor names a slot below maxImagesInFlight and carries
\* that slot's fence and its two semaphores, and the acquisition of the call was
\* handed that slot's image-acquired semaphore.
C11_DescriptorOfOneSlot ==
    pc = "returned" =>
        /\ frame.inFlightIndex \in 0 .. (m_maxImagesInFlight - 1)
        /\ frame.inFlightFence = m_inFlightFences[frame.inFlightIndex]
        /\ frame.readyForRenderingSemaphore =
              m_readyForRenderingSemaphores[frame.inFlightIndex]
        /\ frame.readyForPresentingSemaphore =
              m_readyForPresentingSemaphores[frame.inFlightIndex]
        /\ log[1].op = "acquire"
        /\ log[1].arg = frame.readyForRenderingSemaphore
        /\ frame.readyForRenderingSemaphore # frame.readyForPresentingSemaphore

\* C11 witness: a descriptor of the last slot, after that slot was reused.
C11_Witness ==
    /\ pc = "returned"
    /\ m_maxImagesInFlight >= 2
    /\ returns > m_maxImagesInFlight
    /\ frame.inFlightIndex = m_maxImagesInFlight - 1
    /\ frame.inFlightFence = FenceOf(m_maxImagesInFlight - 1)

\* The number of in-flight slots: fences, and semaphores of each kind.
SlotCounts ==
    { Cardinality(DOMAIN m_inFlightFences),
      Cardinality(DOMAIN m_readyForRenderingSemaphores),
      Cardinality(DOMAIN m_readyForPresentingSemaphores) }

\* C12: the number of slots is maxImagesInFlight, no step changes it or the
\* slots' primitives, and it does not exceed the number of swapchain images.
C12_SlotCountFixed ==
    /\ [](/\ SlotCounts = { m_maxImagesInFlight }
          /\ m_maxImagesInFlight <= m_swapchain.imageCount
          /\ m_swapchain.imageCount = Cardinality(DOMAIN m_imageViews))
    /\ [][/\ m_maxImagesInFlight' = m_maxImagesInFlight
          /\ m_inFlightFences' = m_inFlightFences
          /\ m_readyForRenderingSemaphores' = m_readyForRenderingSemaphores
          /\ m_readyForPresentingSemaphores' = m_readyForPresentingSemaphores]_vars

\* C12 witness: slots have been reused on a swapchain with exactly as many
\* images as slots.
C12_Witness ==
    /\ m_maxImagesInFlight >= 2
    /\ m_swapchain.imageCount = m_maxImagesInFlight
    /\ returns > m_maxImagesInFlight
    /\ SlotCounts = { m_maxImagesInFlight }

\* C13: one image view and one framebuffer per swapchain image, framebuffer i
\* attaching the view of image i (and the depth view), whatever
\* maxImagesInFlight is.
C13_OneViewAndFramebufferPerImage ==
    /\ DOMAIN m_imageViews = 0 .. (m_swapchain.imageCount - 1)
    /\ DOMAIN m_framebuffers = 0 .. (m_swapchain.imageCount - 1)
    /\ \A i \in DOMAIN m_imageViews : m_imageViews[i].image = i
    /\ \A i \in DOMAIN m_framebuffers :
          m_framebuffers[i].attachments = << m_imageViews[i], m_depthImageView >>

\* C13 witness: a manager whose swapchain has more images than slots, in use.
C13_Witness ==
    /\ m_swapchain.imageCount > m_maxImagesInFlight
    /\ Cardinality(DOMAIN m_framebuffers) = m_swapchain.imageCount
    /\ Cardinality({ m_framebuffers[i] : i \in DOMAIN m_framebuffers })
          = m_swapchain.imageCount
    /\ returns >= 1

\* ============================================================ setup helpers
\* Sequences over S of length at most n.
SeqsUpTo(S, n) == UNION { [1 .. k -> S] : k \in 0 .. n }

\* Nothing of the setup code has run yet. Each behaviour of the setup
\* specification runs one piece of it, from this state.
SetupIdle == helper = NoHelperCall /\ gpuPair = NoGpuPair /\ mainRun = MainNotStarted

\* ------------------------------------------------ find_suitable_memory_index
\* vk::MemoryPropertyFlags as sets of flag bits.
MemoryPropertyFlagBits == { "eDeviceLocal", "eHostVisible" }

\* a & b == b on flag sets.
HasAllFlags(propertyFlags, requiredMemoryFlags) ==
    (propertyFlags \cap requiredMemoryFlags) = requiredMemoryFlags

\* ( allowedTypesMask & memoryType ) > 0, memoryType being a single bit.
MaskHasBit(allowedTypesMask, memoryType) ==
    (allowedTypesMask \div memoryType) % 2 = 1

\* The test with the mask left out.
MemoryTypeQualifies_IgnoreMask(memoryTypes, allowedTypesMask, requiredMemoryFlags, i, memoryType) ==
    HasAllFlags(memoryTypes[i + 1], requiredMemoryFlags)

\* The test asking for any of the required flags instead of all of them.
MemoryTypeQualifies_AnyFlag(memoryTypes, allowedTypesMask, requiredMemoryFlags, i, memoryType) ==
    /\ MaskHasBit(allowedTypesMask, memoryType)
    /\ (memoryTypes[i + 1] \cap requiredMemoryFlags) # {}

\* The condition of the if inside the loop (memoryTypes[i] is memoryTypes[i + 1]
\* here: sequences start at 1).
MemoryTypeQualifies(memoryTypes, allowedTypesMask, requiredMemoryFlags, i, memoryType) ==
    /\ MaskHasBit(allowedTypesMask, memoryType)
    /\ HasAllFlags(memoryTypes[i + 1], requiredMemoryFlags)

\* The loop from index i on: memoryType is 1 << i (memoryTypeCount is at most
\* VK_MAX_MEMORY_TYPES = 32, so the 32-bit shift does not wrap inside the loop).
RECURSIVE FindFrom(_, _, _, _, _)
FindFrom(memoryTypes, allowedTypesMask, requiredMemoryFlags, i, memoryType) ==
    IF i < Len(memoryTypes)
    THEN IF MemoryTypeQualifies(memoryTypes, allowedTypesMask, requiredMemoryFlags,
                                i, memoryType)
         THEN [threw |-> FALSE, value |-> i]
         ELSE FindFrom(memoryTypes, allowedTypesMask, requiredMemoryFlags,
                       i + 1, memoryType * 2)
    ELSE [threw |-> TRUE, what |-> "could not find suitable gpu memory"]

find_suitable_memory_index(memoryProperties, allowedTypesMask, requiredMemoryFlags) ==
    FindFrom(memoryProperties, allowedTypesMask, requiredMemoryFlags, 0, 1)

\* The memory type lists, masks and flag sets explored. Masks have one bit more
\* than the longest list, so that bits at and above memoryTypeCount occur.
MemoryTypeLists == SeqsUpTo(SUBSET MemoryPropertyFlagBits, MaxMemoryTypes)
AllowedTypesMasks == 0 .. (2 ^ (MaxMemoryTypes + 1) - 1)

FindSuitableMemoryIndex ==
    /\ SetupIdle
    /\ \E memoryProperties \in MemoryTypeLists,
          allowedTypesMask \in AllowedTypesMasks,
          requiredMemoryFlags \in SUBSET MemoryPropertyFlagBits :
          helper' = [ fn |-> "find_suitable_memory_index",
                      memoryProperties |-> memoryProperties,
                      allowedTypesMask |-> allowedTypesMask,
                      requiredMemoryFlags |-> requiredMemoryFlags,
                      result |-> find_suitable_memory_index(
                          memoryProperties, allowedTypesMask, requiredMemoryFlags) ]
    /\ UNCHANGED << swapchainVars, gpuPair, mainRun, device >>

\* -------------------------------------------------- create_graphics_pipeline
\* The vertex formats handed to create_graphics_pipeline.
VertexFormats == { "eR32G32B32A32Sfloat", "eR32G32B32Sfloat", "eR32G32Sfloat" }

\* sizeof( float )
SizeofFloat == 4

\* A switch with a case for every format: nothing is unsupported.
get_vertex_format_size_AllKnown(format) ==
    [threw |-> FALSE,
     value |-> CASE format = "eR32G32B32A32Sfloat" -> 4 * SizeofFloat
                 [] format = "eR32G32B32Sfloat" -> 3 * SizeofFloat
                 [] OTHER -> 2 * SizeofFloat]

\* get_vertex_format_size: the switch with its single case and throwing default.
get_vertex_format_size(format) ==
    IF format = "eR32G32B32A32Sfloat"
    THEN [threw |-> FALSE, value |-> 4 * SizeofFloat]
    ELSE [threw |-> TRUE, what |-> "unsupported vertex format"]

\* The attribute given the offset after its own format instead of before it.
VertexAttribute_OffsetAfter(v, offset, format) ==
    [binding |-> 0, location |-> v,
     offset |-> offset + get_vertex_format_size(format).value, format |-> format]

\* The vk::VertexInputAttributeDescription pushed for index v.
VertexAttribute(v, offset, format) ==
    [binding |-> 0, location |-> v, offset |-> offset, format |-> format]

\* The loop over vertexFormats from index v on (vertexFormats[v] is
\* vertexFormats[v + 1] here), then the binding description. The pipeline
\* layout and the pipeline are created after the loop.
RECURSIVE VertexInputFrom(_, _, _, _)
VertexInputFrom(vertexFormats, v, offset, vertexAttributeDescriptions) ==
    IF v < Len(vertexFormats)
    THEN LET size == get_vertex_format_size(vertexFormats[v + 1])
             pushed == Append(vertexAttributeDescriptions,
                              VertexAttribute(v, offset, vertexFormats[v + 1]))
         IN  IF size.threw
             THEN [threw |-> TRUE, what |-> size.what, created |-> {}]
             ELSE VertexInputFrom(vertexFormats, v + 1, offset + size.value, pushed)
    ELSE [threw |-> FALSE,
          attributes |-> vertexAttributeDescriptions,
          binding |-> [binding |-> 0, stride |-> offset],
          created |-> { "pipelineLayout", "pipeline" }]

create_graphics_pipeline(vertexFormats) ==
    VertexInputFrom(vertexFormats, 0, 0, << >>)

CreateGraphicsPipeline ==
    /\ SetupIdle
    /\ \E vertexFormats \in SeqsUpTo(VertexFormats, MaxVertexFormats) :
          helper' = [ fn |-> "create_graphics_pipeline",
                      vertexFormats |-> vertexFormats,
                      result |-> create_graphics_pipeline(vertexFormats) ]
    /\ UNCHANGED << swapchainVars, gpuPair, mainRun, device >>

\* ---------------------------------------------------- record_command_buffer
\* The draw recorded before the vertex buffer is bound.
RecordedCommands_DrawBeforeBind(pipeline, frameBuffer, vertexBuffer, vertexCount) ==
    << [cmd |-> "begin"],
       [cmd |-> "bindPipeline", bindPoint |-> "eGraphics", pipeline |-> pipeline],
       [cmd |-> "beginRenderPass", framebuffer |-> frameBuffer,
        clearDepth |-> "1.f", contents |-> "eInline"],
       [cmd |-> "draw", vertexCount |-> vertexCount, instanceCount |-> 1,
        firstVertex |-> 0, firstInstance |-> 0],
       [cmd |-> "bindVertexBuffers", firstBinding |-> 0, buffers |-> << vertexBuffer >>,
        offsets |-> << 0 >>],
       [cmd |-> "endRenderPass"],
       [cmd |-> "end"] >>

\* The calls record_command_buffer makes on the command buffer, top to bottom.
RecordedCommands(pipeline, frameBuffer, vertexBuffer, vertexCount) ==
    << [cmd |-> "begin"],
       [cmd |-> "bindPipeline", bindPoint |-> "eGraphics", pipeline |-> pipeline],
       [cmd |-> "beginRenderPass", framebuffer |-> frameBuffer,
        clearDepth |-> "1.f", contents |-> "eInline"],
       [cmd |-> "bindVertexBuffers", firstBinding |-> 0, buffers |-> << vertexBuffer >>,
        offsets |-> << 0 >>],
       [cmd |-> "draw", vertexCount |-> vertexCount, instanceCount |-> 1,
        firstVertex |-> 0, firstInstance |-> 0],
       [cmd |-> "endRenderPass"],
       [cmd |-> "end"] >>

\* The calls that report a vk::Result, which vulkan.hpp turns into an exception
\* when it is an error: begin and end. The others return void.
ThrowingCommands == { "begin", "end" }

\* record_command_buffer when the call named failing (or none) reports an error:
\* the calls up to and including that one have been made, the rest are skipped.
record_command_buffer(pipeline, frameBuffer, vertexBuffer, vertexCount, failing) ==
    LET all == RecordedCommands(pipeline, frameBuffer, vertexBuffer, vertexCount)
        at == { k \in DOMAIN all : all[k].cmd = failing }
    IN  IF at = {}
        THEN [threw |-> FALSE, commands |-> all]
        ELSE [threw |-> TRUE, commands |-> SubSeq(all, 1, CHOOSE k \in at : TRUE)]

VertexCounts == { 0, 3 }

RecordCommandBuffer ==
    /\ SetupIdle
    /\ \E frameBuffer \in { m_framebuffers[i] : i \in DOMAIN m_framebuffers },
          vertexCount \in VertexCounts,
          failing \in ThrowingCommands \cup { "none" } :
          helper' = [ fn |-> "record_command_buffer",
                      frameBuffer |-> frameBuffer,
                      vertexCount |-> vertexCount,
                      result |-> record_command_buffer("pipeline", frameBuffer,
                                                       "vertexBuffer", vertexCount,
                                                       failing) ]
    /\ UNCHANGED << swapchainVars, gpuPair, mainRun, device >>

\* ------------------------------------------------------------- ~swapchain
\* The members of the manager that own device objects, in declaration order
\* (m_logicalDevice is a plain handle and owns nothing).
OwningMembers ==
    << "m_swapchain", "m_imageViews", "m_framebuffers", "m_depthImage",
       "m_depthImageView", "m_inFlightFences", "m_readyForRenderingSemaphores",
       "m_readyForPresentingSemaphores" >>

\* A vector member as the sequence of its elements.
ElementsOf(vector) == [ k \in 1 .. Cardinality(DOMAIN vector) |-> vector[k - 1] ]

\* The objects destroyed by the destructor of one member, in the order they are
\* destroyed: a vector destroys its elements, the gpu_image its memory and then
\* its image.
DestroyedWith(member) ==
    CASE member = "m_swapchain" -> << SwapchainHandle >>
      [] member = "m_imageViews" -> ElementsOf(m_imageViews)
      [] member = "m_framebuffers" -> ElementsOf(m_framebuffers)
      [] member = "m_depthImage" -> << DepthImageMemory, DepthImage >>
      [] member = "m_depthImageView" -> << m_depthImageView >>
      [] member = "m_inFlightFences" -> ElementsOf(m_inFlightFences)
      [] member = "m_readyForRenderingSemaphores" ->
            ElementsOf(m_readyForRenderingSemaphores)
      [] member = "m_readyForPresentingSemaphores" ->
            ElementsOf(m_readyForPresentingSemaphores)

\* The implicit destructor: the members from the k-th down to the first, i.e. in
\* reverse order of declaration.
RECURSIVE DestructionFrom(_)
DestructionFrom(k) ==
    IF k = 0 THEN << >>
    ELSE DestroyedWith(OwningMembers[k]) \o DestructionFrom(k - 1)

DestructionOrder == DestructionFrom(Len(OwningMembers))

\* The manager is destroyed.
DestroySwapchain ==
    /\ SetupIdle
    /\ helper' = [ fn |-> "~swapchain", destroyed |-> DestructionOrder ]
    /\ UNCHANGED << swapchainVars, gpuPair, mainRun, device >>

\* --------------------------------------------------- select_physical_device
PhysicalDeviceTypes == { "eDiscreteGpu", "eIntegratedGpu", "eCpu" }

\* The loop body for the device at `index` (from 0): the new bestDeviceIndex.
BestAfter(deviceType, index, bestDeviceIndex) ==
    IF deviceType = "eDiscreteGpu" /\ bestDeviceIndex = 0
    THEN index
    ELSE bestDeviceIndex

\* The range-for over devices from `index` on.
RECURSIVE SelectFrom(_, _, _)
SelectFrom(devices, index, bestDeviceIndex) ==
    IF index < Len(devices)
    THEN SelectFrom(devices, index + 1,
                    BestAfter(devices[index + 1], index, bestDeviceIndex))
    ELSE bestDeviceIndex

\* select_physical_device: the index of the device returned (devices is the
\* list of the device types, devices[ i ] in the code is devices[i + 1] here).
select_physical_device(devices) == SelectFrom(devices, 0, 0)

SelectPhysicalDevice ==
    /\ SetupIdle
    /\ \E devices \in SeqsUpTo(PhysicalDeviceTypes, MaxDevices) \ { << >> } :
          helper' = [ fn |-> "select_physical_device",
                      devices |-> devices,
                      result |-> select_physical_device(devices) ]
    /\ UNCHANGED << swapchainVars, gpuPair, mainRun, device >>

\* ------------------------------------------------------ create_shader_module
SizeofUint32 == 4

\* buffer.resize( file_size / sizeof( uint32_t ) ): the bytes the buffer holds.
ShaderBufferBytes(fileSize) == (fileSize \div SizeofUint32) * SizeofUint32

\* is.read( buffer.data(), bufferSizeInBytes ): the bytes the read stores
\* through the pointer, all bufferSizeInBytes = fileSize bytes of the file.
ShaderBytesRead(fileSize) == fileSize

\* What can follow the read: a write past the end of the vector's storage is
\* undefined behaviour, anything of the following may be observed.
ShaderOutcomes(fileSize) ==
    IF ShaderBytesRead(fileSize) > ShaderBufferBytes(fileSize)
    THEN { "shader module", "heap corrupted", "crash" }
    ELSE { "shader module" }

CreateShaderModule ==
    /\ SetupIdle
    /\ \E opened \in BOOLEAN, fileSize \in 0 .. MaxFileSize :
          IF ~opened
          THEN helper' = [ fn |-> "create_shader_module", opened |-> FALSE,
                           threw |-> TRUE, what |-> "Could not open file" ]
          ELSE \E outcome \in ShaderOutcomes(fileSize) :
                  helper' = [ fn |-> "create_shader_module", opened |-> TRUE,
                              threw |-> FALSE,
                              fileSize |-> fileSize,
                              bufferBytes |-> ShaderBufferBytes(fileSize),
                              bytesRead |-> ShaderBytesRead(fileSize),
                              outcome |-> outcome ]
    /\ UNCHANGED << swapchainVars, gpuPair, mainRun, device >>

\* ------------------------------------------------------- create_render_pass
SurfaceFormats == { "eB8G8R8A8Srgb", "eB8G8R8A8Unorm" }

\* create_render_pass: the attachment descriptions handed to setAttachments (the
\* colour attachment alone) and the one subpass with its colour reference.
create_render_pass(colorFormat) ==
    [ attachments |->
          << [ format |-> colorFormat, loadOp |-> "eClear", storeOp |-> "eStore",
               initialLayout |-> "eUndefined", finalLayout |-> "ePresentSrcKHR" ] >>,
      subpasses |->
          << [ colorAttachments |->
                   << [ attachment |-> 0, layout |-> "eColorAttachmentOptimal" ] >> ] >> ]

CreateRenderPass ==
    /\ SetupIdle
    /\ \E colorFormat \in SurfaceFormats :
          helper' = [ fn |-> "create_render_pass",
                      colorFormat |-> colorFormat,
                      result |-> create_render_pass(colorFormat) ]
    /\ UNCHANGED << swapchainVars, gpuPair, mainRun, device >>

\* ------------------------------------------------------ gpu_buffer, gpu_image
\* The members of each pair, in declaration order.
PairMembers(kind) ==
    CASE kind = "gpu_buffer" -> << "buffer", "memory" >>
      [] kind = "gpu_image"  -> << "image", "memory" >>

\* create_gpu_buffer / create_depth_image return a pair owning the resource and
\* the memory bound to it.
CreateGpuPair ==
    /\ SetupIdle
    /\ \E kind \in { "gpu_buffer", "gpu_image" } :
          gpuPair' = [kind |-> kind, alive |-> PairMembers(kind), destroyed |-> << >>]
    /\ UNCHANGED << swapchainVars, helper, mainRun, device >>

\* The implicit destructor of the pair: the members are destroyed one by one in
\* reverse order of declaration (a vk::UniqueDeviceMemory frees the memory, a
\* vk::UniqueBuffer / vk::UniqueImage destroys the resource).
DestroyGpuPairMember ==
    /\ gpuPair.kind # "none"
    /\ gpuPair.alive # << >>
    /\ gpuPair' = [gpuPair EXCEPT
                     !.alive = SubSeq(@, 1, Len(@) - 1),
                     !.destroyed = Append(@, gpuPair.alive[Len(gpuPair.alive)])]
    /\ UNCHANGED << swapchainVars, helper, mainRun, device >>

\* --------------------------------------------------------------------- main
\* The statements of main's try block that can throw, in order.
MainSteps ==
    << "create_instance", "create_physical_device", "create_logical_device",
       "create_gpu_buffer input", "create_gpu_buffer output", "mapMemory",
       "create_shader_module", "create_descriptor_set_layout",
       "create_pipeline_layout", "create_compute_pipeline",
       "create_descriptor_pool", "allocateDescriptorSets",
       "createCommandPool", "allocateCommandBuffers",
       "commandBuffer.begin", "commandBuffer.end" >>

\* A handler that also returns 0.
MainReturnValue_AlwaysZero(caught) == 0

\* What main returns: -1 from the catch block, 0 after the try block.
MainReturnValue(caught) == IF caught THEN -1 ELSE 0

MainCanStep ==
    /\ \/ SetupIdle
       \/ mainRun.state = "running"
    /\ Len(mainRun.executed) < Len(MainSteps)

\* The next statement of the try block completes.
MainStepSucceeds ==
    /\ MainCanStep
    /\ mainRun' = [mainRun EXCEPT
                     !.state = "running",
                     !.executed = Append(@, MainSteps[Len(@) + 1])]
    /\ UNCHANGED << swapchainVars, helper, gpuPair, device >>

\* The next statement throws (every failure here is a std::exception): the
\* handler prints the message and returns.
MainStepThrows ==
    /\ MainCanStep
    /\ mainRun' = [state |-> "returned",
                   executed |-> Append(mainRun.executed,
                                       MainSteps[Len(mainRun.executed) + 1]),
                   failedAt |-> Len(mainRun.executed) + 1,
                   printed |-> TRUE,
                   exit |-> MainReturnValue(TRUE)]
    /\ UNCHANGED << swapchainVars, helper, gpuPair, device >>

\* The try block is left normally.
MainReturns ==
    /\ mainRun.state = "running"
    /\ Len(mainRun.executed) = Len(MainSteps)
    /\ mainRun' = [mainRun EXCEPT !.state = "returned", !.exit = MainReturnValue(FALSE)]
    /\ UNCHANGED << swapchainVars, helper, gpuPair, device >>

\* The state the setup code is explored from: one manager, not yet used.
InitSetup ==
    /\ Init
    /\ m_maxImagesInFlight = 1
    /\ m_swapchain.imageCount = 1

NextSetup ==
    \/ FindSuitableMemoryIndex
    \/ CreateGraphicsPipeline
    \/ CreateGpuPair
    \/ DestroyGpuPairMember
    \/ MainStepSucceeds
    \/ MainStepThrows
    \/ MainReturns
    \/ RecordCommandBuffer
    \/ DestroySwapchain
    \/ SelectPhysicalDevice
    \/ CreateShaderModule
    \/ CreateRenderPass

SpecSetup == InitSetup /\ [][NextSetup]_vars

\* The indices a call of find_suitable_memory_index may return by its contract:
\* those below memoryTypeCount whose bit is set in the mask and whose type
\* carries every required flag.
SuitableIndices(memoryProperties, allowedTypesMask, requiredMemoryFlags) ==
    { i \in 0 .. (Len(memoryProperties) - 1) :
        /\ (allowedTypesMask \div (2 ^ i)) % 2 = 1
        /\ requiredMemoryFlags \subseteq memoryProperties[i + 1] }

HelperSuitable ==
    SuitableIndices(helper.memoryProperties, helper.allowedTypesMask,
                    helper.requiredMemoryFlags)

\* C14: when some index qualifies, find_suitable_memory_index returns the
\* lowest qualifying index.
C14_LowestSuitableIndex ==
    (helper.fn = "find_suitable_memory_index" /\ HelperSuitable # {}) =>
        /\ ~helper.result.threw
        /\ helper.result.value \in HelperSuitable
        /\ \A j \in HelperSuitable : helper.result.value <= j

\* C14 witness: two types qualify, the first type does not, and the lower of
\* the two is returned.
C14_Witness ==
    /\ helper.fn = "find_suitable_memory_index"
    /\ Cardinality(HelperSuitable) = 2
    /\ 0 \notin HelperSuitable
    /\ helper.requiredMemoryFlags # {}
    /\ helper.result = [threw |-> FALSE, value |-> 1]

\* C15: when no index qualifies, find_suitable_memory_index throws and returns
\* no index.
C15_NoSuitableIndexThrows ==
    (helper.fn = "find_suitable_memory_index" /\ HelperSuitable = {}) =>
        /\ helper.result.threw
        /\ DOMAIN helper.result = { "threw", "what" }

\* C15 witness: the mask has bits only at and above memoryTypeCount, every type
\* carries the required flags, and the call throws.
C15_Witness ==
    /\ helper.fn = "find_suitable_memory_index"
    /\ Len(helper.memoryProperties) = 2
    /\ helper.allowedTypesMask = 4
    /\ \A i \in 1 .. 2 : helper.requiredMemoryFlags \subseteq helper.memoryProperties[i]
    /\ helper.result.threw

\* The byte size of each format the pipeline factory supports.
SupportedFormatSize == [ f \in { "eR32G32B32A32Sfloat" } |-> 16 ]

RECURSIVE SumOfSizes(_)
SumOfSizes(formats) ==
    IF formats = << >> THEN 0
    ELSE SupportedFormatSize[Head(formats)] + SumOfSizes(Tail(formats))

\* C16: for a list of supported formats, attribute v has location v, binding 0
\* and the summed sizes of the formats before it as offset, and the stride is
\* the summed size of all formats.
C16_AttributeOffsetsAreRunningSums ==
    ( /\ helper.fn = "create_graphics_pipeline"
      /\ \A k \in DOMAIN helper.vertexFormats :
            helper.vertexFormats[k] \in DOMAIN SupportedFormatSize ) =>
        /\ ~helper.result.threw
        /\ Len(helper.result.attributes) = Len(helper.vertexFormats)
        /\ \A k \in DOMAIN helper.vertexFormats :
              helper.result.attributes[k] =
                  [ binding |-> 0,
                    location |-> k - 1,
                    offset |-> SumOfSizes(SubSeq(helper.vertexFormats, 1, k - 1)),
                    format |-> helper.vertexFormats[k] ]
        /\ helper.result.binding =
              [binding |-> 0, stride |-> SumOfSizes(helper.vertexFormats)]

\* C16 witness: a pipeline for the longest list of supported formats.
C16_Witness ==
    /\ helper.fn = "create_graphics_pipeline"
    /\ Len(helper.vertexFormats) = MaxVertexFormats
    /\ ~helper.result.threw
    /\ helper.result.attributes[MaxVertexFormats].offset = 16 * (MaxVertexFormats - 1)
    /\ helper.result.binding.stride = 16 * MaxVertexFormats

\* C20: a list holding a format other than the 4x32-bit float format, at any
\* position, makes create_graphics_pipeline throw the unsupported-format error
\* and create nothing.
C20_UnsupportedFormatThrows ==
    ( /\ helper.fn = "create_graphics_pipeline"
      /\ \E k \in DOMAIN helper.vertexFormats :
            helper.vertexFormats[k] # "eR32G32B32A32Sfloat" ) =>
        /\ helper.result.threw
        /\ helper.result.what = "unsupported vertex format"
        /\ helper.result.created = {}

\* C20 witness: the unsupported format is the last of the list, after
\* supported ones.
C20_Witness ==
    /\ helper.fn = "create_graphics_pipeline"
    /\ Len(helper.vertexFormats) = MaxVertexFormats
    /\ \A k \in 1 .. (MaxVertexFormats - 1) :
          helper.vertexFormats[k] = "eR32G32B32A32Sfloat"
    /\ helper.vertexFormats[MaxVertexFormats] = "eR32G32Sfloat"
    /\ helper.result.threw

Destroyed(member) == \E k \in DOMAIN gpuPair.destroyed : gpuPair.destroyed[k] = member

\* C17: while a pair is destroyed, its memory is freed only after the buffer or
\* image bound to it has been destroyed.
C17_MemoryFreedAfterResource ==
    (gpuPair.kind # "none" /\ Destroyed("memory")) =>
        Destroyed(PairMembers(gpuPair.kind)[1])

\* C19: a failing step ends main: no later step runs, the message is printed
\* and the value returned is not zero; zero is returned only after every step
\* has succeeded.
C19_FailureEndsMain ==
    /\ mainRun.executed = SubSeq(MainSteps, 1, Len(mainRun.executed))
    /\ mainRun.failedAt # 0 =>
          /\ mainRun.state = "returned"
          /\ Len(mainRun.executed) = mainRun.failedAt
          /\ mainRun.printed
          /\ mainRun.exit # 0
          /\ mainRun.exit % 256 # 0
    /\ (mainRun.state = "returned" /\ mainRun.failedAt = 0) =>
          /\ mainRun.exit = 0
          /\ mainRun.executed = MainSteps
          /\ ~mainRun.printed
    /\ (mainRun.state = "returned" /\ mainRun.exit = 0) =>
          /\ mainRun.failedAt = 0
          /\ mainRun.executed = MainSteps
          /\ ~mainRun.printed

\* C19 witness: the shader module could not be created, after the buffers were.
C19_Witness ==
    /\ mainRun.state = "returned"
    /\ mainRun.failedAt = 7
    /\ mainRun.executed[7] = "create_shader_module"
    /\ mainRun.exit = -1

\* The handles a descriptor carries, and the views its framebuffer refers to.
FrameHandles ==
    IF frame = NoFrame THEN {}
    ELSE { frame.framebuffer, frame.inFlightFence, frame.readyForRenderingSemaphore,
           frame.readyForPresentingSemaphore,
           frame.framebuffer.attachments[1], frame.framebuffer.attachments[2] }

\* C18: every handle the manager holds, and every handle in the descriptor it
\* returned, names an object made by the manager's own construction, never one
\* destroyed with a manager before it.
C18_NoHandleOfPreviousManager ==
    /\ DOMAIN device.objectOf = ManagerHandles
    /\ FrameHandles \subseteq ManagerHandles
    /\ \A h \in ManagerHandles \cup FrameHandles :
          /\ ObjectOf(h) \notin device.destroyed
          /\ device.objectOf[h] = device.constructions

\* C18 witness: the second manager, built for another extent after the first
\* was destroyed with its objects, has returned a descriptor.
C18_Witness ==
    /\ device.constructions = 2
    /\ device.extent # Extents[1]
    /\ device.destroyed # {}
    /\ pc = "returned"
    /\ frame # NoFrame

\* The names of the commands of a recorded sequence.
CommandNames(commands) == [ k \in DOMAIN commands |-> commands[k].cmd ]

RecordedNames ==
    << "begin", "bindPipeline", "beginRenderPass", "bindVertexBuffers", "draw",
       "endRenderPass", "end" >>

\* C21 as stated: every call of record_command_buffer emits the whole sequence.
C21_AlwaysWholeSequence ==
    helper.fn = "record_command_buffer" =>
        CommandNames(helper.result.commands) = RecordedNames

\* C21: a call of record_command_buffer that returns has emitted begin, bind
\* pipeline, begin render pass, bind vertex buffer (binding 0, offset 0), draw,
\* end render pass, end, in this order; a call that throws has emitted a prefix
\* of that sequence ending with the begin or end that failed.
C21_SequenceUnlessApiFailure ==
    helper.fn = "record_command_buffer" =>
        LET commands == helper.result.commands
            names == CommandNames(commands)
        IN  /\ IsPrefix(names, RecordedNames)
            /\ Len(commands) >= 4 =>
                  /\ commands[4].firstBinding = 0
                  /\ commands[4].offsets = << 0 >>
            /\ Len(commands) >= 3 => commands[3].framebuffer = helper.frameBuffer
            /\ Len(commands) >= 5 => commands[5].vertexCount = helper.vertexCount
            /\ ~helper.result.threw => names = RecordedNames
            /\ helper.result.threw =>
                  /\ names # << >>
                  /\ names[Len(names)] \in ThrowingCommands

\* C21 witness: a call recording three vertices returned with all seven commands.
C21_Witness ==
    /\ helper.fn = "record_command_buffer"
    /\ ~helper.result.threw
    /\ helper.vertexCount = 3
    /\ Len(helper.result.commands) = 7

\* C22: when the acquisition of a call has been handed the slot's
\* ready-for-rendering semaphore, no submission of that slot (the one that last
\* waited on the semaphore) is still executing. Stated for a caller that
\* submitted and presented the previous descriptor, and for calls that find an
\* image that was never acquired before, so that the acquisition does not
\* depend on when the presentation engine releases an image.
C22_SemaphoreIdleAtAcquisition ==
    ( /\ pc = "wait"
      /\ acquireStatus \in AcquiredCodes
      /\ returns >= 1 => (submitted /\ presented)
      /\ returns < m_swapchain.imageCount )
    => pending[m_inFlightFences[m_currentFrameIndex]] = 0

\* The image views a framebuffer attaches.
AttachmentsOf(framebuffer) ==
    { framebuffer.attachments[k] : k \in DOMAIN framebuffer.attachments }

\* Submissions of two different slots are executing at the same time.
TwoSlotsInFlight ==
    \E s, t \in Slots :
        /\ s # t
        /\ pending[m_inFlightFences[s]] > 0
        /\ pending[m_inFlightFences[t]] > 0

\* C23: while the GPU work of two frames overlaps, no two framebuffers of the
\* manager share an attachment, colour or depth.
C23_NoSharedAttachment ==
    (m_maxImagesInFlight >= 2 /\ TwoSlotsInFlight) =>
        \A i, j \in Images :
            i # j => AttachmentsOf(m_framebuffers[i]) \cap AttachmentsOf(m_framebuffers[j]) = {}

\* C24: under the contract and with every submission completing, a call of
\* get_next_frame that has been entered eventually returns its descriptor.
C24_EveryCallReturns == (pc \in InCall) ~> (pc = "returned")

\* C24 witness: the loop has gone twice around two slots on a swapchain with
\* exactly two images.
C24_Witness ==
    /\ pc = "returned"
    /\ m_maxImagesInFlight = 2
    /\ m_swapchain.imageCount = 2
    /\ returns = 4
    /\ submitted
    /\ presented

\* C25: after a failed acquisition the call has waited on no fence, reset none
\* and not advanced the slot index: the index is still the one reached by the
\* calls that returned, so the next call uses the same slot.
C25_FailedAcquisitionChangesNothing ==
    acquireStatus \notin (AcquiredCodes \cup { "none" }) =>
        /\ \A k \in DOMAIN log : log[k].op \notin { "wait", "reset", "build", "advance" }
        /\ m_currentFrameIndex = returns % m_maxImagesInFlight
        /\ AcquireSemaphore = m_readyForRenderingSemaphores[returns % m_maxImagesInFlight]

\* C25 witness: with two slots, the second call failed in its acquisition and
\* left the manager at slot 1.
C25_Witness ==
    /\ pc = "threw"
    /\ m_maxImagesInFlight = 2
    /\ returns = 1
    /\ m_currentFrameIndex = 1
    /\ ~signaled[m_inFlightFences[0]]

\* C26: a step of get_next_frame leaves every handle of the manager and
\* maxImagesInFlight as they are, changes the slot index only in its last
\* statement, and changes the signaled state of no fence but the current slot's.
C26_CallTouchesIndexAndOwnFenceOnly ==
    [][ (pc \in InCall /\ pc' # pc) =>
          /\ managerVars' = managerVars
          /\ m_currentFrameIndex' # m_currentFrameIndex => pc = "advance"
          /\ \A s \in Slots :
                s # m_currentFrameIndex =>
                    signaled'[m_inFlightFences[s]] = signaled[m_inFlightFences[s]]
          /\ pc = "reset" => ~signaled'[m_inFlightFences[m_currentFrameIndex]]
      ]_vars

\* C26 witness: with two slots, a call has reset its own fence while the other
\* slot's fence is signaled.
C26_Witness ==
    /\ pc = "build"
    /\ m_maxImagesInFlight = 2
    /\ returns >= 2
    /\ ~signaled[m_inFlightFences[m_currentFrameIndex]]
    /\ signaled[m_inFlightFences[1 - m_currentFrameIndex]]

\* The objects of the manager an object of the manager was created from.
ReferencedBy(h) ==
    CASE h.kind = "framebuffer" -> AttachmentsOf(h)
      [] h = DepthImageView -> { DepthImage }
      [] h.kind = "imageView" /\ h # DepthImageView -> { SwapchainHandle }
      [] OTHER -> {}

\* The position of an object in a destruction sequence.
DestroyedAt(order, h) == CHOOSE k \in DOMAIN order : order[k] = h

\* C27: in the destruction of the manager every object is destroyed before the
\* objects it references (a framebuffer before its attached views, a view
\* before its image or swapchain), and the swapchain is destroyed last.
C27_DestroyedBeforeWhatItReferences ==
    helper.fn = "~swapchain" =>
        LET order == helper.destroyed
            objects == { order[k] : k \in DOMAIN order }
        IN  /\ \A h \in objects : \A r \in ReferencedBy(h) :
                  DestroyedAt(order, h) < DestroyedAt(order, r)
            /\ order[Len(order)] = SwapchainHandle

\* The indices (from 0) of the discrete GPUs of a device list.
DiscreteIndices(devices) ==
    { i \in 0 .. (Len(devices) - 1) : devices[i + 1] = "eDiscreteGpu" }

\* C28: select_physical_device returns the lowest-indexed discrete GPU of a
\* non-empty list that has one, and the device at index 0 otherwise.
C28_LowestDiscreteGpu ==
    helper.fn = "select_physical_device" =>
        LET discrete == DiscreteIndices(helper.devices)
        IN  IF discrete = {}
            THEN helper.result = 0
            ELSE /\ helper.result \in discrete
                 /\ \A i \in discrete : helper.result <= i

\* C29: create_shader_module stores no more bytes into its word buffer than the
\* buffer holds, 4 * floor(size / 4), whatever the file size is.
C29_ReadFitsBuffer ==
    (helper.fn = "create_shader_module" /\ helper.opened) =>
        /\ helper.bufferBytes = 4 * (helper.fileSize \div 4)
        /\ helper.bytesRead <= helper.bufferBytes

\* C30: every framebuffer of the manager binds as many image views as the
\* render pass made by create_render_pass declares attachments.
C30_FramebufferMatchesRenderPass ==
    helper.fn = "create_render_pass" =>
        \A i \in DOMAIN m_framebuffers :
            Len(m_framebuffers[i].attachments) = Len(helper.result.attachments)

====
